---- MODULE Spec2Model ----
(***************************************************************************)
(* Model of package stairs (stairs.go): WeightedItems.BuildCDF and         *)
(* WeightedItemsFloat.BuildCDF, and the searchCDF closures they return.    *)
(*                                                                         *)
(* Positions are 0-based as in the Go source; At(tbl, i) reads tbl[i].     *)
(* Integer weights are far below the range of Go's int, so + never wraps.  *)
(* A float64 is modelled as a record [nan, q]: NaN, or the exact value     *)
(* q / (Grain * Grain); the input weights are multiples of 1 / Grain and   *)
(* the uniform value r.Float64() is a multiple of 1 / Grain, so every      *)
(* sum and product the code computes is exact in these units.              *)
(***************************************************************************)
EXTENDS Integers, Sequences, FiniteSets

VARIABLES
    variant,  \* "int": WeightedItems, "float": WeightedItemsFloat
    input,    \* the collection as the caller made it, before BuildCDF
    s,        \* the collection's backing array, shared by caller and closure
    table,    \* the contents of s when the first successful BuildCDF returned
    err,      \* the error BuildCDF returned: "none" before the call
    errLine,  \* the source line of the return statement BuildCDF took
    pc,       \* "start", "failed", "idle", "search", "panic"
    num,      \* the number drawn by the running or last call of searchCDF
    left,     \* searchCDF's left bound
    right,    \* searchCDF's right bound
    iters,    \* iterations of the search loop begun by the running or last call
    result,   \* <<index>> returned by the last call of searchCDF, or <<>>
    builds,   \* number of calls of BuildCDF on the collection
    writes    \* number of element writes of the caller after BuildCDF

vars == <<variant, input, s, table, err, errLine, pc, num, left, right, iters,
          result, builds, writes>>

(***************************************************************************)
(* Bounds of the model.                                                    *)
(***************************************************************************)
MaxLen == 3
MaxWeight == 5
Grain == 2
MaxFloat == 3
IndexOffset == 7
MaxBuilds == 2
MaxWrites == 1
AliasWeight == 1

(***************************************************************************)
(* Program constants.                                                      *)
(***************************************************************************)
tooShortErr == "Array of items must be longer than 0."
zeroWeightErr == "All items must have a positive weight."
\* EPSILON = 0.00001 = 1 / EpsilonInv
EpsilonInv == 100000

(***************************************************************************)
(* Data: WeightedItem, WeightedItemFloat and float64 values.               *)
(***************************************************************************)
WeightedItem(w, i) == [Weight |-> w, Index |-> i]

At(tbl, i) == tbl[i + 1]

InRange(tbl, i) == 0 <= i /\ i < Len(tbl)

SetWeight(tbl, i, w) == [tbl EXCEPT ![i + 1].Weight = w]

SetIndex(tbl, i, x) == [tbl EXCEPT ![i + 1].Index = x]

\* the float64 1.0, in units of 1 / (Grain * Grain)
One == Grain * Grain

NaN == [nan |-> TRUE, q |-> 0]

F(q) == [nan |-> FALSE, q |-> q]

\* float64 comparison and arithmetic: every comparison with NaN is false,
\* every sum and product with NaN is NaN
FLt(a, b) == ~a.nan /\ ~b.nan /\ a.q < b.q

FLe(a, b) == ~a.nan /\ ~b.nan /\ a.q <= b.q

FGt(a, b) == ~a.nan /\ ~b.nan /\ a.q > b.q

FAdd(a, b) == IF a.nan \/ b.nan THEN NaN ELSE F(a.q + b.q)

Abs(x) == IF x < 0 THEN 0 - x ELSE x

\* math.Abs(a - b) <= EPSILON
FNear(a, b) == ~a.nan /\ ~b.nan /\ Abs(a.q - b.q) * EpsilonInv <= One

(***************************************************************************)
(* sort.Sort(s): for a slice of at most 12 elements Go's sort package runs *)
(* an insertion sort through the Len, Less and Swap methods.               *)
(***************************************************************************)
LessReversed(v, tbl, i, j) ==
    IF v = "int" THEN At(tbl, i).Weight > At(tbl, j).Weight
    ELSE FGt(At(tbl, i).Weight, At(tbl, j).Weight)

Less(v, tbl, i, j) ==
    IF v = "int" THEN At(tbl, i).Weight < At(tbl, j).Weight
    ELSE FLt(At(tbl, i).Weight, At(tbl, j).Weight)

Swap(tbl, i, j) ==
    LET temp == At(tbl, i) IN
    [tbl EXCEPT ![i + 1] = At(tbl, j), ![j + 1] = temp]

\* for j := i; j > 0 && Less(j, j-1); j-- { Swap(j, j-1) }
RECURSIVE SortInner(_, _, _)
SortInner(v, tbl, j) ==
    IF j > 0 /\ Less(v, tbl, j, j - 1)
    THEN SortInner(v, Swap(tbl, j, j - 1), j - 1)
    ELSE tbl

\* for i := 1; i < Len(); i++ { ... }
RECURSIVE SortOuter(_, _, _)
SortOuter(v, tbl, i) ==
    IF i < Len(tbl) THEN SortOuter(v, SortInner(v, tbl, i), i + 1) ELSE tbl

Sort(v, tbl) == SortOuter(v, tbl, 1)

(***************************************************************************)
(* WeightedItems.BuildCDF, up to the construction of the closure.  The     *)
(* result is the backing array as the call leaves it, the error returned   *)
(* and the line of the return statement taken.                             *)
(***************************************************************************)
RECURSIVE AccumulateFromFirst(_, _)
AccumulateFromFirst(tbl, i) ==
    IF i >= Len(tbl) THEN [s |-> tbl, err |-> "nil", line |-> 150]
    ELSE IF At(tbl, i).Weight <= 0
    THEN [s |-> tbl, err |-> zeroWeightErr, line |-> 99]
    ELSE AccumulateFromFirst(
             SetWeight(tbl, i, At(tbl, i).Weight + At(tbl, 0).Weight), i + 1)

\* for i := 1; i < len(s); i++ { check s[i]; s[i].Weight += s[i-1].Weight }
RECURSIVE Accumulate(_, _)
Accumulate(tbl, i) ==
    IF i >= Len(tbl) THEN [s |-> tbl, err |-> "nil", line |-> 150]
    ELSE IF At(tbl, i).Weight <= 0
    THEN [s |-> tbl, err |-> zeroWeightErr, line |-> 99]
    ELSE Accumulate(
             SetWeight(tbl, i, At(tbl, i).Weight + At(tbl, i - 1).Weight), i + 1)

BuildCDF(tbl) ==
    IF Len(tbl) <= 0 THEN [s |-> tbl, err |-> tooShortErr, line |-> 84]
    ELSE LET sorted == Sort("int", tbl) IN
         IF At(sorted, 0).Weight <= 0
         THEN [s |-> sorted, err |-> zeroWeightErr, line |-> 92]
         ELSE Accumulate(sorted, 1)

(***************************************************************************)
(* WeightedItemsFloat.BuildCDF.  The check inside the loop reads s[0], as  *)
(* line 173 does.                                                          *)
(***************************************************************************)
RECURSIVE AccumulateFloat(_, _)
AccumulateFloat(tbl, i) ==
    IF i >= Len(tbl) THEN [s |-> tbl, err |-> "nil", line |-> 225]
    ELSE IF FLe(At(tbl, 0).Weight, F(0))
    THEN [s |-> tbl, err |-> zeroWeightErr, line |-> 174]
    ELSE AccumulateFloat(
             SetWeight(tbl, i, FAdd(At(tbl, i).Weight, At(tbl, i - 1).Weight)),
             i + 1)

BuildCDFFloat(tbl) ==
    IF Len(tbl) <= 0 THEN [s |-> tbl, err |-> tooShortErr, line |-> 159]
    ELSE LET sorted == Sort("float", tbl) IN
         IF FLe(At(sorted, 0).Weight, F(0))
         THEN [s |-> sorted, err |-> zeroWeightErr, line |-> 167]
         ELSE AccumulateFloat(sorted, 1)

(***************************************************************************)
(* The searchCDF closures.  One iteration of the for loop either returns   *)
(* the position whose Index is the result, or continues with new bounds,   *)
(* or panics (the Go runtime's bounds check on s[m], s[m+1], s[m-1]).      *)
(***************************************************************************)
Return(pos) == [kind |-> "return", pos |-> pos, left |-> 0, right |-> 0]

Continue(l, r) == [kind |-> "continue", pos |-> 0, left |-> l, right |-> r]

Panic == [kind |-> "panic", pos |-> 0, left |-> 0, right |-> 0]

\* the closure reads the slice s it captured: the caller's backing array
ClosureTableCopy == table

ClosureTable == s

\* right := len(s) - 1
InitRightLen(tbl) == Len(tbl)

InitRight(tbl) == Len(tbl) - 1

\* left = m + 1
NewLeftStuck(m) == m

NewLeft(m) == m + 1

\* right = m - 1
NewRight(m) == m - 1

\* return s[pos].Index
ReturnedPosition(tbl, pos) == pos

Returned(tbl, pos) == At(tbl, pos).Index

SearchIter(tbl, n, l, r) ==
    LET m == (l + r) \div 2 IN
    IF ~InRange(tbl, m) THEN Panic
    ELSE LET valm == At(tbl, m).Weight IN
         IF valm = n THEN Return(m)
         ELSE IF valm < n
         THEN IF m = Len(tbl) - 1 THEN Return(m)
              ELSE IF ~InRange(tbl, m + 1) THEN Panic
              ELSE IF At(tbl, m + 1).Weight > n THEN Return(m + 1)
              ELSE Continue(NewLeft(m), r)
         ELSE IF m = 0 THEN Return(m)
              ELSE IF ~InRange(tbl, m - 1) THEN Panic
              ELSE IF At(tbl, m - 1).Weight <= n THEN Return(m)
              ELSE Continue(l, NewRight(m))

SearchIterFloat(tbl, n, l, r) ==
    LET m == (l + r) \div 2 IN
    IF ~InRange(tbl, m) THEN Panic
    ELSE LET valm == At(tbl, m).Weight IN
         IF FNear(valm, n) THEN Return(m)
         ELSE IF FLt(valm, n)
         THEN IF m = Len(tbl) - 1 THEN Return(m)
              ELSE IF ~InRange(tbl, m + 1) THEN Panic
              ELSE IF FGt(At(tbl, m + 1).Weight, n) THEN Return(m + 1)
              ELSE Continue(NewLeft(m), r)
         ELSE IF m = 0 THEN Return(m)
              ELSE IF ~InRange(tbl, m - 1) THEN Panic
              ELSE IF FLe(At(tbl, m - 1).Weight, n) THEN Return(m)
              ELSE Continue(l, NewRight(m))

\* the whole for loop of the integer closure, run for at most fuel + 1
\* iterations
RECURSIVE SearchLoop(_, _, _, _, _)
SearchLoop(tbl, n, l, r, fuel) ==
    LET it == SearchIter(tbl, n, l, r) IN
    IF it.kind # "continue" THEN it
    ELSE IF fuel = 0 THEN [it EXCEPT !.kind = "diverge"]
    ELSE SearchLoop(tbl, n, it.left, it.right, fuel - 1)

\* the outcome of the integer closure for the drawn number n: <<index>>,
\* or <<>> when the call does not return
searchCDF(tbl, n) ==
    LET it == SearchLoop(tbl, n, 0, InitRight(tbl), Len(tbl)) IN
    IF it.kind = "return" THEN <<Returned(tbl, it.pos)>> ELSE <<>>

\* s[len(s)-1].Weight
TotalWeight(tbl) == At(tbl, Len(tbl) - 1).Weight

\* r.Float64()*(s[len(s)-1].Weight-1) + 1, with r.Float64() = j / Grain
FloatNum(total, j) ==
    IF total.nan THEN NaN ELSE F(j * ((total.q - One) \div Grain) + One)

(***************************************************************************)
(* The collections a caller can pass.                                      *)
(***************************************************************************)
IntWeights == -1 .. MaxWeight

FloatWeights == {F(Grain * k) : k \in -1 .. MaxFloat} \cup {NaN}

\* the Index of the item at position i: its place in the caller's array,
\* optionally shifted, or one label for all
Layouts == {0, IndexOffset} \X {0, 1}

LayoutIndex(lay, i) == lay[1] + lay[2] * i

Collections(weights, maxLen) ==
    UNION {{[i \in 1 .. n |-> WeightedItem(ws[i], LayoutIndex(lay, i - 1))] :
              ws \in [1 .. n -> weights], lay \in Layouts} : n \in 0 .. maxLen}

(***************************************************************************)
(* The state machine: one caller, one collection.                          *)
(***************************************************************************)
InitCommon ==
    /\ s = input
    /\ table = <<>>
    /\ err = "none"
    /\ errLine = 0
    /\ pc = "start"
    /\ num = 0
    /\ left = 0
    /\ right = 0
    /\ iters = 0
    /\ result = <<>>
    /\ builds = 0
    /\ writes = 0

Init ==
    /\ variant \in {"int", "float"}
    /\ input \in Collections(IF variant = "int" THEN IntWeights ELSE FloatWeights,
                             MaxLen)
    /\ InitCommon

\* f, err := w.BuildCDF()
Build(b) ==
    /\ s' = b.s
    /\ err' = b.err
    /\ errLine' = b.line
    /\ builds' = builds + 1
    /\ table' = IF b.err = "nil" /\ table = <<>> THEN b.s ELSE table
    /\ UNCHANGED <<variant, input, num, left, right, iters, result, writes>>

CallBuildCDF ==
    /\ pc = "start"
    /\ variant = "int"
    /\ Build(BuildCDF(s))
    /\ pc' = IF err' = "nil" THEN "idle" ELSE "failed"

CallBuildCDFFloat ==
    /\ pc = "start"
    /\ variant = "float"
    /\ Build(BuildCDFFloat(s))
    /\ pc' = IF err' = "nil" THEN "idle" ELSE "failed"

\* index := f(), up to the first iteration of the loop
StartSearch(n) ==
    /\ num' = n
    /\ right' = InitRight(ClosureTable)
    /\ left' = 0
    /\ iters' = 0
    /\ result' = <<>>
    /\ pc' = "search"
    /\ UNCHANGED <<variant, input, s, table, err, errLine, builds, writes>>

\* r.Intn(n) panics when n <= 0
PanicNow ==
    /\ pc' = "panic"
    /\ UNCHANGED <<variant, input, s, table, err, errLine, num, left, right,
                   iters, result, builds, writes>>

Draw ==
    /\ pc = "idle"
    /\ variant = "int"
    /\ LET total == TotalWeight(ClosureTable) IN
       IF total <= 0 THEN PanicNow
       ELSE \E k \in 0 .. total - 1 : StartSearch(k + 1)

DrawFloat ==
    /\ pc = "idle"
    /\ variant = "float"
    /\ \E j \in 0 .. Grain - 1 : StartSearch(FloatNum(TotalWeight(ClosureTable), j))

\* one iteration of the for loop
Iterate(it) ==
    /\ iters' = iters + 1
    /\ IF it.kind = "return"
       THEN /\ result' = <<Returned(ClosureTable, it.pos)>>
            /\ pc' = "idle"
            /\ UNCHANGED <<left, right>>
       ELSE IF it.kind = "continue"
       THEN /\ left' = it.left
            /\ right' = it.right
            /\ UNCHANGED <<result, pc>>
       ELSE /\ pc' = "panic"
            /\ UNCHANGED <<left, right, result>>
    /\ UNCHANGED <<variant, input, s, table, err, errLine, num, builds, writes>>

Step ==
    /\ pc = "search"
    /\ variant = "int"
    /\ Iterate(SearchIter(ClosureTable, num, left, right))

StepFloat ==
    /\ pc = "search"
    /\ variant = "float"
    /\ Iterate(SearchIterFloat(ClosureTable, num, left, right))

Next == CallBuildCDF \/ CallBuildCDFFloat \/ Draw \/ DrawFloat \/ Step \/ StepFloat

Spec == Init /\ [][Next]_vars

(***************************************************************************)
(* The caller keeps the collection after BuildCDF: WeightedItems is a      *)
(* slice, its receiver is passed by value and shares the backing array,    *)
(* and Weight and Index are exported fields.                               *)
(***************************************************************************)
\* an Index value no input item carries
FreshIndex == IndexOffset + MaxLen

\* non-empty collections of small positive weights, labelled from 0
InitAlias ==
    /\ variant = "int"
    /\ input \in {c \in Collections(1 .. AliasWeight, MaxLen) :
                    Len(c) > 0 /\ At(c, 0).Index = 0}
    /\ InitCommon

\* w[i].Weight = x
OverwriteWeight ==
    /\ pc = "idle"
    /\ writes < MaxWrites
    /\ \E i \in 0 .. Len(s) - 1, x \in {0, MaxWeight} : s' = SetWeight(s, i, x)
    /\ writes' = writes + 1
    /\ UNCHANGED <<variant, input, table, err, errLine, pc, num, left, right,
                   iters, result, builds>>

\* w[i].Index = x
OverwriteIndex ==
    /\ pc = "idle"
    /\ writes < MaxWrites
    /\ \E i \in 0 .. Len(s) - 1 : s' = SetIndex(s, i, FreshIndex)
    /\ writes' = writes + 1
    /\ UNCHANGED <<variant, input, table, err, errLine, pc, num, left, right,
                   iters, result, builds>>

\* a second w.BuildCDF() on the same collection; the closure returned by
\* the first call stays in use
Rebuild ==
    /\ pc = "idle"
    /\ builds < MaxBuilds
    /\ Build(BuildCDF(s))
    /\ UNCHANGED pc

NextAlias ==
    CallBuildCDF \/ Draw \/ Step \/ OverwriteWeight \/ OverwriteIndex \/ Rebuild

SpecAlias == InitAlias /\ [][NextAlias]_vars

(***************************************************************************)
(* Vocabulary of the claims.                                               *)
(***************************************************************************)
IntBuilt == variant = "int" /\ pc \in {"idle", "search"}

Returned1 == pc = "idle" /\ result # <<>>

RECURSIVE SumWeights(_)
SumWeights(tbl) ==
    IF tbl = <<>> THEN 0 ELSE Head(tbl).Weight + SumWeights(Tail(tbl))

\* the smallest position whose cumulative value is >= n
AnswerPos(tbl, n) ==
    CHOOSE p \in 0 .. Len(tbl) - 1 :
        /\ At(tbl, p).Weight >= n
        /\ \A q \in 0 .. p - 1 : At(tbl, q).Weight < n

Count(tbl, item) == Cardinality({i \in 1 .. Len(tbl) : tbl[i] = item})

\* the same items, each as often: one sequence is a reordering of the other
SameItems(a, b) ==
    /\ Len(a) = Len(b)
    /\ \A i \in 1 .. Len(a) : Count(a, a[i]) = Count(b, a[i])

\* no element is less than its predecessor
Ascending(v, tbl) == \A i \in 1 .. Len(tbl) - 1 : ~Less(v, tbl, i, i - 1)

\* the original items of a prefix-summed table
Differences(tbl) ==
    [i \in 1 .. Len(tbl) |->
        WeightedItem(tbl[i].Weight - (IF i = 1 THEN 0 ELSE tbl[i - 1].Weight),
                     tbl[i].Index)]

NonPositive(w) == IF variant = "int" THEN w <= 0 ELSE FLe(w, F(0))

\* floor(log2(n)) + 1 for n >= 1
RECURSIVE BitLen(_)
BitLen(n) == IF n <= 0 THEN 0 ELSE 1 + BitLen(n \div 2)

(***************************************************************************)
(* C1.  Integer variant: a finished draw returns the Index stored at the   *)
(* smallest position whose cumulative value is >= num.                     *)
(* Refuted: for weights [1,2,5] the drawn value 1 returns index 1.         *)
(***************************************************************************)
C1_DrawReturnsFirstAtLeast ==
    (variant = "int" /\ Returned1) =>
        result = <<At(s, AnswerPos(s, num)).Index>>

(***************************************************************************)
(* C2.  Integer variant: each Index is the result of the draw for exactly  *)
(* as many of the values 1..totalWeight as the weights given with it sum   *)
(* to.  Refuted: the item sorted first is never returned when three items  *)
(* are given.                                                              *)
(***************************************************************************)
C2_DrawsProportionalToWeight ==
    (variant = "int" /\ pc = "idle") =>
        \A i \in 1 .. Len(input) :
            Cardinality({n \in 1 .. TotalWeight(s) :
                            searchCDF(s, n) = <<input[i].Index>>})
            = SumWeights(SelectSeq(input, LAMBDA it : it.Index = input[i].Index))

(***************************************************************************)
(* C3.  Both variants: BuildCDF returns an error exactly when the          *)
(* collection is empty (the too-short error) or holds a weight <= 0 (the   *)
(* positive-weight error).  Refuted for the float variant: [NaN, -0.5]     *)
(* is accepted.                                                            *)
(***************************************************************************)
C3_ErrorIffEmptyOrNonPositive ==
    pc # "start" =>
        /\ (err = tooShortErr) <=> (Len(input) = 0)
        /\ (err = zeroWeightErr) <=>
               (\E i \in 1 .. Len(input) : NonPositive(input[i].Weight))
        /\ (err = "nil") <=> (pc # "failed")

(***************************************************************************)
(* C4.  Integer variant: after a successful BuildCDF the collection holds  *)
(* the input items in ascending order of their original weight, each       *)
(* Weight replaced by the sum of the original weights up to its position:  *)
(* the stored weights are positive and strictly increasing, the last one   *)
(* is the total, and each Index stays with the weight it was given with.   *)
(***************************************************************************)
C4_SortedPrefixSums ==
    IntBuilt =>
        /\ SameItems(Differences(s), input)
        /\ Ascending("int", Differences(s))
        /\ \A i \in 1 .. Len(s) :
               /\ s[i].Weight > 0
               /\ i > 1 => s[i].Weight > s[i - 1].Weight
               /\ s[i].Weight = SumWeights(SubSeq(Differences(s), 1, i))
        /\ TotalWeight(s) = SumWeights(input)

C4_Witness ==
    /\ IntBuilt
    /\ Len(s) = 3
    /\ input[1].Weight > input[2].Weight
    /\ input[3].Weight < input[2].Weight

(***************************************************************************)
(* C5.  Both variants: every value a draw returns is the Index field of    *)
(* some item of the input collection; with input indices 0..n-1 it lies    *)
(* in [0, n).                                                              *)
(***************************************************************************)
C5_ReturnsAnInputIndex ==
    Returned1 =>
        /\ \E i \in 1 .. Len(input) : input[i].Index = result[1]
        /\ (\A i \in 1 .. Len(input) : input[i].Index = i - 1) =>
               (0 <= result[1] /\ result[1] < Len(input))

C5_Witness ==
    /\ Returned1
    /\ Len(input) = 3
    /\ input[1].Index = IndexOffset
    /\ input[2].Index = IndexOffset + 1
    /\ result[1] # input[1].Index

(***************************************************************************)
(* C6, as claimed.  After a successful BuildCDF no later action of the     *)
(* caller on the collection changes the index the draw operation yields    *)
(* for a given num: the closure behaves as on the table it was built with. *)
(***************************************************************************)
C6_DrawOwnsACopy ==
    (variant = "int" /\ pc = "idle") =>
        \A n \in 1 .. TotalWeight(table) : searchCDF(ClosureTable, n) = searchCDF(table, n)

(***************************************************************************)
(* C6, amended.  The draw operation reads the caller's collection itself,  *)
(* not a copy: a call that returns yields the index the search finds in    *)
(* the collection's contents at that time, and leaves the collection as    *)
(* it is.                                                                  *)
(***************************************************************************)
C6_DrawReadsTheCollection ==
    [][(pc = "search" /\ pc' = "idle") =>
           (result' = searchCDF(s, num) /\ s' = s)]_vars

C6_Witness ==
    /\ Returned1
    /\ writes > 0
    /\ num <= TotalWeight(table)
    /\ result # searchCDF(table, num)

(***************************************************************************)
(* C7.  Integer variant: every call of a built draw operation ends without *)
(* failing: the loop runs at most floor(log2(n)) + 1 iterations and never  *)
(* reads a position outside 0..n-1.                                        *)
(***************************************************************************)
C7_DrawTerminates ==
    variant = "int" =>
        /\ pc # "panic"
        /\ iters <= BitLen(Len(s))
        /\ pc = "search" => iters < BitLen(Len(s))

C7_Witness ==
    /\ variant = "int"
    /\ Returned1
    /\ Len(s) = 3
    /\ iters = 2

(***************************************************************************)
(* C8.  Float variant: the drawn value num = u * (totalWeight - 1) + 1     *)
(* lies in [1, totalWeight].  Refuted: for the single weight 0.5 and       *)
(* u = 0, num is 1 and totalWeight 0.5.                                    *)
(***************************************************************************)
C8_FloatNumInRange ==
    (variant = "float" /\ pc = "search") =>
        (FLe(F(One), num) /\ FLe(num, TotalWeight(s)))

(***************************************************************************)
(* C9.  Integer variant: at the start of every iteration of the search     *)
(* loop 0 <= left <= right <= n-1, and the smallest position whose         *)
(* cumulative value is >= num lies in left..right.                         *)
(***************************************************************************)
C9_SearchInvariant ==
    (variant = "int" /\ pc = "search") =>
        /\ 0 <= left
        /\ left <= right
        /\ right <= Len(s) - 1
        /\ left <= AnswerPos(s, num)
        /\ AnswerPos(s, num) <= right

C9_Witness ==
    /\ variant = "int"
    /\ pc = "search"
    /\ iters = 1
    /\ left = right
    /\ left = 2

====
